---- MODULE Spec2Model ----
(***************************************************************************)
(* Analytics layer of the quantum-job dashboard (src/src/utils/analytics.ts)*)
(* computeDurations, estimateWaitTimesByBackend, recommendBackends and      *)
(* detectAnomalies, as operators over a list of job records, and a state    *)
(* machine whose actions call them on a job list drawn at Init.             *)
(*                                                                          *)
(* JavaScript numbers are modelled as exact rationals extended with NaN,    *)
(* Infinity and -Infinity.  IEEE-754 rounding is modelled where a result    *)
(* depends on it: detectAnomaliesDouble evaluates the z-score in doubles.   *)
(***************************************************************************)
EXTENDS Integers, Sequences, FiniteSets, TLC

VARIABLES jobs, given, calls, fn, args, result, thrown,
          loading, refreshing, error, jobsLength, filtered, sortedLength,
          currentPage, inFlight, outcome, mounted

vars == <<jobs, given, calls, fn, args, result, thrown,
          loading, refreshing, error, jobsLength, filtered, sortedLength,
          currentPage, inFlight, outcome, mounted>>

\* the state of the calls of the analytics functions
analytics == <<jobs, given, calls, fn, args, result, thrown>>

(***************************************************************************)
(* JavaScript numbers                                                       *)
(***************************************************************************)
RECURSIVE GCD(_, _)
GCD(a, b) == IF b = 0 THEN a ELSE GCD(b, a % b)

Abs(a) == IF a < 0 THEN 0 - a ELSE a

LCM(a, b) == (a \div GCD(a, b)) * b

NaN == [k |-> "NaN", n |-> 0, d |-> 1]

Infinity == [k |-> "Inf", n |-> 1, d |-> 1]

NegInfinity == [k |-> "-Inf", n |-> 0 - 1, d |-> 1]

\* the finite number n/d (d > 0), in lowest terms
Rat(n, d) ==
    LET g == GCD(Abs(n), d)
    IN  [k |-> "fin", n |-> n \div g, d |-> d \div g]

Num(i) == Rat(i, 1)

IsNaN(x) == x.k = "NaN"

\* Number.isFinite
IsFinite(x) == x.k = "fin"

Sign(x) == IF x.n > 0 THEN 1 ELSE IF x.n < 0 THEN 0 - 1 ELSE 0

Neg(x) ==
    CASE x.k = "NaN" -> NaN
      [] x.k = "Inf" -> NegInfinity
      [] x.k = "-Inf" -> Infinity
      [] OTHER -> Rat(0 - x.n, x.d)

\* x + y
Add(x, y) ==
    CASE IsNaN(x) \/ IsNaN(y) -> NaN
      [] IsFinite(x) /\ IsFinite(y) ->
            LET l == LCM(x.d, y.d)
            IN  Rat(x.n * (l \div x.d) + y.n * (l \div y.d), l)
      [] IsFinite(x) -> y
      [] IsFinite(y) -> x
      [] x.k = y.k -> x
      [] OTHER -> NaN

\* x - y
Sub(x, y) == Add(x, Neg(y))

\* x * y
Mul(x, y) ==
    CASE IsNaN(x) \/ IsNaN(y) -> NaN
      [] IsFinite(x) /\ IsFinite(y) ->
            LET g1 == GCD(Abs(x.n), y.d)
                g2 == GCD(Abs(y.n), x.d)
            IN  Rat((x.n \div g1) * (y.n \div g2), (x.d \div g2) * (y.d \div g1))
      [] Sign(x) * Sign(y) = 0 -> NaN
      [] Sign(x) * Sign(y) > 0 -> Infinity
      [] OTHER -> NegInfinity

\* x / y
Div(x, y) ==
    CASE IsNaN(x) \/ IsNaN(y) -> NaN
      [] IsFinite(x) /\ IsFinite(y) /\ y.n # 0 ->
            Mul(x, Rat(Sign(y) * y.d, Abs(y.n)))
      [] IsFinite(x) /\ IsFinite(y) ->
            IF x.n = 0 THEN NaN ELSE IF x.n > 0 THEN Infinity ELSE NegInfinity
      [] IsFinite(x) -> Num(0)
      [] IsFinite(y) -> IF y.n >= 0 THEN x ELSE Neg(x)
      [] OTHER -> NaN

\* x < y (false when either side is NaN)
Lt(x, y) ==
    CASE IsNaN(x) \/ IsNaN(y) -> FALSE
      [] IsFinite(x) /\ IsFinite(y) ->
            LET l == LCM(x.d, y.d)
            IN  x.n * (l \div x.d) < y.n * (l \div y.d)
      [] x.k = y.k -> FALSE
      [] OTHER -> x.k = "-Inf" \/ y.k = "Inf"

Gt(x, y) == Lt(y, x)

\* x === y on numbers (false when either side is NaN)
NumEq(x, y) == ~IsNaN(x) /\ ~IsNaN(y) /\ x = y

\* x <= y, x >= y
Le(x, y) == Lt(x, y) \/ NumEq(x, y)

Ge(x, y) == Le(y, x)

\* Math.max(x, y), Math.min(x, y)
MathMax2(x, y) == IF IsNaN(x) \/ IsNaN(y) THEN NaN ELSE IF Lt(x, y) THEN y ELSE x

MathMin2(x, y) == IF IsNaN(x) \/ IsNaN(y) THEN NaN ELSE IF Lt(y, x) THEN y ELSE x

\* Math.max(...xs), Math.min(...xs)
RECURSIVE MathMax(_)
MathMax(xs) ==
    IF xs = <<>> THEN NegInfinity ELSE MathMax2(Head(xs), MathMax(Tail(xs)))

RECURSIVE MathMin(_)
MathMin(xs) ==
    IF xs = <<>> THEN Infinity ELSE MathMin2(Head(xs), MathMin(Tail(xs)))

\* arr.reduce((a, b) => a + b, 0)
RECURSIVE Sum(_)
Sum(xs) == IF xs = <<>> THEN Num(0) ELSE Add(Sum(SubSeq(xs, 1, Len(xs) - 1)), xs[Len(xs)])

(***************************************************************************)
(* JavaScript strings that may be null or undefined.  A string the code     *)
(* parses digit by digit (execution_time) is a sequence of characters.      *)
(***************************************************************************)
Null == [isNull |-> TRUE, str |-> ""]

Str(s) == [isNull |-> FALSE, str |-> s]

NullChars == [isNull |-> TRUE, str |-> <<>>]

Chars(cs) == [isNull |-> FALSE, str |-> cs]

\* null, undefined and "" are falsy
Truthy(v) == ~v.isNull /\ v.str # ""

TruthyChars(v) == ~v.isNull /\ v.str # <<>>

\* v || dflt, as a string
OrElse(v, dflt) == IF Truthy(v) THEN v.str ELSE dflt

\* new Date(s).getTime() for the time strings of the model: milliseconds
\* since the epoch, NaN for an invalid date
DateGetTime(s) ==
    CASE s = "1970-01-01T00:00:00Z" -> Num(0)
      [] s = "1970-01-01T00:00:01Z" -> Num(1000)
      [] s = "1970-01-01T00:00:02Z" -> Num(2000)
      [] s = "1970-01-01T00:00:04Z" -> Num(4000)
      [] s = "1970-01-01T00:00:21Z" -> Num(21000)
      [] OTHER -> NaN

DigitValue(c) ==
    CASE c = "0" -> 0 [] c = "1" -> 1 [] c = "2" -> 2 [] c = "3" -> 3
      [] c = "4" -> 4 [] c = "5" -> 5 [] c = "6" -> 6 [] c = "7" -> 7
      [] c = "8" -> 8 [] c = "9" -> 9 [] OTHER -> 0 - 1

IsDigit(c) == DigitValue(c) >= 0

\* the value of the longest prefix of digits of cs from position i on
RECURSIVE DigitsFrom(_, _, _)
DigitsFrom(cs, i, acc) ==
    IF i <= Len(cs) /\ IsDigit(cs[i])
    THEN DigitsFrom(cs, i + 1, acc * 10 + DigitValue(cs[i]))
    ELSE acc

RECURSIVE SkipSpaces(_, _)
SkipSpaces(cs, i) ==
    IF i <= Len(cs) /\ cs[i] = " " THEN SkipSpaces(cs, i + 1) ELSE i

\* parseInt(cs, 10): leading blanks, an optional sign, then digits; NaN
\* when no digit follows
ParseInt(cs) ==
    LET i == SkipSpaces(cs, 1)
        signed == i <= Len(cs) /\ cs[i] \in {"-", "+"}
        j == IF signed THEN i + 1 ELSE i
        v == DigitsFrom(cs, j, 0)
    IN  IF j > Len(cs) \/ ~IsDigit(cs[j]) THEN NaN
        ELSE IF signed /\ cs[i] = "-" THEN Num(0 - v) ELSE Num(v)

(***************************************************************************)
(* Job records (src/src/utils/loadJobs.ts, interface Job)                   *)
(***************************************************************************)
T0 == "1970-01-01T00:00:00Z"

T1 == "1970-01-01T00:00:01Z"

T2 == "1970-01-01T00:00:02Z"

T4 == "1970-01-01T00:00:04Z"

T21 == "1970-01-01T00:00:21Z"

BadTime == "not a date"

\* Flattens a sequence of sequences
RECURSIVE Concat(_)
Concat(ss) == IF ss = <<>> THEN <<>> ELSE Head(ss) \o Concat(Tail(ss))

\* a job record without its job_id
Shape(b, bt, st, ct, et, xt) ==
    [backend |-> b, backend_type |-> bt, status |-> st,
     creation_time |-> ct, end_time |-> et, execution_time |-> xt]

\* the records short job lists are made of
JobShapes ==
    << Shape(Str("A"), Str("QPU"), "COMPLETED", Str(T0), Str(T4), Chars(<<"1", "0", "0", "0">>)),
       Shape(Str("A"), Str("QPU"), "COMPLETED", Str(T0), Str(T1), Chars(<<"5", "0", "0">>)),
       Shape(Str("A"), Str("QPU"), "FAILED", Str(T0), Null, NullChars),
       Shape(Str("A"), Null, "COMPLETED", Str(BadTime), Str(T4), NullChars),
       Shape(Str("A"), Str("QPU"), "RUNNING", Str(""), Null, NullChars),
       Shape(Str("B"), Str("Simulator"), "COMPLETED", Str(T0), Str(T4), Chars(<<"-", "5", "0", "0">>)),
       Shape(Str("B"), Str("Simulator"), "FAILED", Str(T0), Null, NullChars),
       Shape(Str("B"), Str("Simulator"), "COMPLETED", Str(T4), Str(T1), Chars(<<"a", "b", "c">>)),
       Shape(Str(""), Null, "COMPLETED", Str(T0), Str(BadTime), Chars(<<"2", "0", "0", "0", "m", "s">>)),
       Shape(Str("B"), Str("Simulator"), "QUEUED", Null, Null, NullChars) >>

\* the records long runs are made of
BulkShapes ==
    << Shape(Str("A"), Str("QPU"), "COMPLETED", Str(T0), Str(T2), Chars(<<"1", "0", "0", "0">>)),
       Shape(Str("A"), Str("QPU"), "COMPLETED", Str(T0), Str(T21), Chars(<<"1", "0", "0", "0">>)),
       Shape(Str("B"), Str("Simulator"), "FAILED", Str(T0), Str(T21), Chars(<<"1", "0", "0", "0">>)) >>

\* bounds of the job lists
MaxJobs == 3

LongRun == 7

JobId(i) == "job-" \o ToString(i)

\* the job list of the shapes sh, with job ids by position
WithIds(sh) ==
    [i \in 1..Len(sh) |->
        [job_id |-> JobId(i), backend |-> sh[i].backend,
         backend_type |-> sh[i].backend_type, status |-> sh[i].status,
         creation_time |-> sh[i].creation_time, end_time |-> sh[i].end_time,
         execution_time |-> sh[i].execution_time]]

ShortLists ==
    { WithIds([i \in 1..Len(f) |-> JobShapes[f[i]]]) :
        f \in UNION { [1..n -> 1..Len(JobShapes)] : n \in 0..MaxJobs } }

\* the lengths of the runs of equal records: none, one, and the lengths
\* around the sample size detectAnomalies asks for
RunLengths == {0, 1, LongRun - 1, LongRun, LongRun + 1}

RECURSIVE Repeat(_, _)
Repeat(x, n) == IF n = 0 THEN <<>> ELSE <<x>> \o Repeat(x, n - 1)

\* the runs in the order ord of the shapes, count[s] records of shape s
Runs(ord, count) ==
    Concat([i \in 1..Len(BulkShapes) |-> Repeat(BulkShapes[ord[i]], count[ord[i]])])

\* long job lists: one run of equal records per shape, the runs in any order
BulkLists ==
    { WithIds(Runs(ord, count)) :
        ord \in Permutations(1..Len(BulkShapes)),
        count \in [1..Len(BulkShapes) -> RunLengths] }

\* the longest run of equal records in the lists made for the failure window
MaxRun == 12

\* the lengths of those runs: none, one, and lengths that put the window
\* below, at and above its 10 and 20 records
WindowRuns == {0, 1, MaxRun - 4, MaxRun - 2, MaxRun}

\* lists for the failure window of backend B: failed jobs of B, jobs of
\* backend A, completed jobs of B, failed jobs of B again
WindowLists ==
    { WithIds(Repeat(JobShapes[7], a) \o Repeat(JobShapes[1], d)
              \o Repeat(JobShapes[6], b) \o Repeat(BulkShapes[3], c)) :
        a \in WindowRuns, d \in {0, MaxRun}, b \in WindowRuns, c \in WindowRuns }

\* records whose backend is named like a property every object inherits,
\* and records of ordinary backends that ran longer than they lasted, have
\* no end_time, or completed without a creation_time
NamedShapes ==
    << Shape(Str("constructor"), Str("QPU"), "COMPLETED", Str(T0), Str(T4), Chars(<<"1", "0", "0", "0">>)),
       Shape(Str("constructor"), Str("QPU"), "CANCELLED", Str(""), Null, NullChars),
       Shape(Str("__proto__"), Null, "FAILED", Str(BadTime), Null, NullChars),
       Shape(Str("A"), Str("QPU"), "COMPLETED", Str(T0), Str(T1), Chars(<<" ", "2", "0", "0", "0">>)),
       Shape(Str("A"), Str("QPU"), "COMPLETED", Str(T0), Null, Chars(<<"5", "0", "0">>)),
       Shape(Str("C"), Str("QPU"), "COMPLETED", Null, Str(T4), Chars(<<"1", "0", "0", "0">>)) >>

NamedLists ==
    { WithIds([i \in 1..Len(f) |-> NamedShapes[f[i]]]) :
        f \in UNION { [1..n -> 1..Len(NamedShapes)] : n \in 0..MaxJobs } }

JobLists == ShortLists \cup BulkLists \cup WindowLists \cup NamedLists

\* the records of the lists made for the z-score: failed jobs of backend A
\* that queued 1 s and a completed one that queued 20 s, failed jobs without
\* a backend that did not queue and a completed job of a backend named
\* "Unknown" that queued 20 s
StuckShapes ==
    << Shape(Str("A"), Str("QPU"), "FAILED", Str(T0), Str(T2), Chars(<<"1", "0", "0", "0">>)),
       Shape(Str("A"), Str("QPU"), "COMPLETED", Str(T0), Str(T21), Chars(<<"1", "0", "0", "0">>)),
       Shape(Str(""), Null, "FAILED", Str(T0), Null, NullChars),
       Shape(Str("Unknown"), Str("Simulator"), "COMPLETED", Str(T0), Str(T21), Chars(<<"1", "0", "0", "0">>)) >>

\* the lengths of the runs of equal queue times: with one more record they
\* are below, at and well above the sample size detectAnomalies asks for
StuckRuns == {LongRun - 1, LongRun, 2 * LongRun - 1}

\* the numbers of records that queued longer
Outliers == 0..(MaxJobs - 1)

\* lists for the z-score: equal queue times of two backends, then the
\* longer ones of the one backend and of the other, in either order
StuckLists ==
    { WithIds(Repeat(StuckShapes[1], m[1]) \o Repeat(StuckShapes[3], m[2])
              \o Repeat(StuckShapes[2 * first], o[first])
              \o Repeat(StuckShapes[6 - 2 * first], o[3 - first])) :
        m \in [1..2 -> StuckRuns], o \in [1..2 -> Outliers], first \in 1..2 }

\* records of backend A that queued 0, 1, 20, 2 and 3 whole seconds
DoubleShapes ==
    << Shape(Str("A"), Str("QPU"), "COMPLETED", Str(T0), Str(T1), Chars(<<"1", "0", "0", "0">>)),
       Shape(Str("A"), Str("QPU"), "COMPLETED", Str(T0), Str(T2), Chars(<<"1", "0", "0", "0">>)),
       Shape(Str("A"), Str("QPU"), "COMPLETED", Str(T0), Str(T21), Chars(<<"1", "0", "0", "0">>)),
       Shape(Str("A"), Str("QPU"), "COMPLETED", Str(T0), Str(T4), Chars(<<"2", "0", "0", "0">>)),
       Shape(Str("A"), Str("QPU"), "COMPLETED", Str(T0), Str(T4), Chars(<<"1", "0", "0", "0">>)) >>

\* the shorter and the longer queue time of a list
DoublePairs == { <<1, 2>>, <<2, 3>>, <<4, 5>> }

\* the longest run of the shorter queue time
MaxEqual == 25

DoubleRuns == {LongRun, MaxRun, MaxEqual}

\* lists for the z-score in doubles: a run of the shorter queue time and up
\* to MaxJobs + 1 records of the longer, before it or after it
DoubleLists ==
    { WithIds(IF first = 1
              THEN Repeat(DoubleShapes[p[1]], a) \o Repeat(DoubleShapes[p[2]], k)
              ELSE Repeat(DoubleShapes[p[2]], k) \o Repeat(DoubleShapes[p[1]], a)) :
        p \in DoublePairs, a \in DoubleRuns, k \in 0..(MaxJobs + 1), first \in 1..2 }

\* the lists long enough for detectAnomalies to find something, and the
\* short lists of named backends
LongLists == BulkLists \cup WindowLists \cup StuckLists \cup NamedLists

(***************************************************************************)
(* computeDurations                                                         *)
(***************************************************************************)
Thousand == Num(1000)

\* Math.max(0, (endMs - startMs) / 1000)
FromEnd(startMs, endMs) == MathMax2(Num(0), Div(Sub(endMs, startMs), Thousand))

\* mutant: without a usable execMs the execution time is 0
ExecSec_NoFallback(startMs, endMs, execMs) ==
    IF IsFinite(execMs) /\ Ge(execMs, Num(0))
    THEN Div(execMs, Thousand)
    ELSE Num(0)

\* mutant: the test execMs >= 0 is left out
ExecSec_AnySign(startMs, endMs, execMs) ==
    IF IsFinite(execMs)
    THEN Div(execMs, Thousand)
    ELSE IF IsFinite(endMs) THEN FromEnd(startMs, endMs) ELSE Num(0)

ExecSec(startMs, endMs, execMs) ==
    IF IsFinite(execMs) /\ Ge(execMs, Num(0))
    THEN Div(execMs, Thousand)
    ELSE IF IsFinite(endMs) THEN FromEnd(startMs, endMs) ELSE Num(0)

TurnaroundSec(startMs, endMs, execSec) ==
    IF IsFinite(endMs) THEN FromEnd(startMs, endMs) ELSE execSec

\* mutant: the difference is not cut off at 0
QueueSec_NoMax(turnaroundSec, execSec) == Sub(turnaroundSec, execSec)

QueueSec(turnaroundSec, execSec) == MathMax2(Num(0), Sub(turnaroundSec, execSec))

\* mutant: the backend is copied as it is
DurationOf_RawBackend(j) ==
    LET startMs == DateGetTime(j.creation_time.str)
        endMs == IF Truthy(j.end_time) THEN DateGetTime(j.end_time.str) ELSE NaN
        execMs == IF TruthyChars(j.execution_time)
                  THEN ParseInt(j.execution_time.str) ELSE NaN
        execSec == ExecSec(startMs, endMs, execMs)
        turnaroundSec == TurnaroundSec(startMs, endMs, execSec)
        queueSec == QueueSec(turnaroundSec, execSec)
    IN  [job_id |-> j.job_id,
         backend |-> j.backend.str,
         backend_type |-> j.backend_type,
         status |-> j.status,
         queueSec |-> queueSec,
         execSec |-> execSec]

\* the record computeDurations maps a job to
DurationOf(j) ==
    LET startMs == DateGetTime(j.creation_time.str)
        endMs == IF Truthy(j.end_time) THEN DateGetTime(j.end_time.str) ELSE NaN
        execMs == IF TruthyChars(j.execution_time)
                  THEN ParseInt(j.execution_time.str) ELSE NaN
        execSec == ExecSec(startMs, endMs, execMs)
        turnaroundSec == TurnaroundSec(startMs, endMs, execSec)
        queueSec == QueueSec(turnaroundSec, execSec)
    IN  [job_id |-> j.job_id,
         backend |-> OrElse(j.backend, "Unknown"),
         backend_type |-> j.backend_type,
         status |-> j.status,
         queueSec |-> queueSec,
         execSec |-> execSec]

\* mutant: the filter tests creation_time against null only
HasCreationTime_NullOnly(j) == ~j.creation_time.isNull

\* jobs.filter(j => j.creation_time)
HasCreationTime(j) == Truthy(j.creation_time)

computeDurations(js) ==
    LET kept == SelectSeq(js, HasCreationTime)
    IN  [i \in 1..Len(kept) |-> DurationOf(kept[i])]

(***************************************************************************)
(* Array helpers                                                            *)
(***************************************************************************)
Range(xs) == { xs[i] : i \in 1..Len(xs) }

\* Array.from(new Set(xs)): the distinct elements in order of first occurrence
RECURSIVE Distinct(_)
Distinct(xs) ==
    IF xs = <<>> THEN <<>>
    ELSE LET r == Distinct(SubSeq(xs, 1, Len(xs) - 1))
         IN  IF xs[Len(xs)] \in Range(r) THEN r ELSE Append(r, xs[Len(xs)])

\* what the sort makes of the comparator's value a - b: NaN counts as 0
Compare(a, b) ==
    LET v == Sub(a, b) IN IF IsNaN(v) THEN 0 ELSE Sign(v)

\* the comparator (a, b) => a - b is no consistent comparator for keys:
\* a NaN compares equal to two keys that differ
Inconsistent(keys) ==
    /\ \E i \in 1..Len(keys) : IsNaN(keys[i])
    /\ \E i, j \in 1..Len(keys) : Compare(keys[i], keys[j]) # 0

\* the positions 1..n of keys in the order a stable ascending sort puts them
RECURSIVE SortedIndices(_, _)
SortedIndices(keys, n) ==
    IF n = 0 THEN <<>>
    ELSE LET s == SortedIndices(keys, n - 1)
             p == Cardinality({ i \in 1..Len(s) : Compare(keys[s[i]], keys[n]) <= 0 })
         IN  SubSeq(s, 1, p) \o <<n>> \o SubSeq(s, p + 1, Len(s))

\* the orders Array.prototype.sort may leave the positions of keys in: the
\* stable ascending order, or any order at all (implementation-defined) when
\* the comparator is not consistent
SortOrders(keys) ==
    IF Inconsistent(keys)
    THEN { [i \in 1..Len(keys) |-> p[i]] : p \in Permutations(1..Len(keys)) }
    ELSE { SortedIndices(keys, Len(keys)) }

(***************************************************************************)
(* The grouping by backend in an object literal                             *)
(***************************************************************************)
\* the properties the object {} inherits from Object.prototype: byBackend[k]
\* is truthy for each of them before anything is stored under k
ObjectPrototypeKeys ==
    { "constructor", "__proto__", "hasOwnProperty", "isPrototypeOf",
      "propertyIsEnumerable", "toLocaleString", "toString", "valueOf",
      "__defineGetter__", "__defineSetter__", "__lookupGetter__",
      "__lookupSetter__" }

\* if (!byBackend[d.backend]) byBackend[d.backend] = [];
\* byBackend[d.backend].push(d.queueSec): for an inherited property no array
\* is stored, the value found has no push, and the call ends in a TypeError
GroupingThrows(durations) ==
    \E i \in 1..Len(durations) : durations[i].backend \in ObjectPrototypeKeys

(***************************************************************************)
(* estimateWaitTimesByBackend                                               *)
(***************************************************************************)
\* mutant: the records with a falsy queueSec (0, NaN) are left out
QueueSecsOf_Truthy(durations, b) ==
    LET sub == SelectSeq(durations,
                         LAMBDA d : d.backend = b /\ ~IsNaN(d.queueSec)
                                                  /\ d.queueSec # Num(0))
    IN  [i \in 1..Len(sub) |-> sub[i].queueSec]

\* byBackend[b]: the queueSec of the duration records of backend b, in order
QueueSecsOf(durations, b) ==
    LET sub == SelectSeq(durations, LAMBDA d : d.backend = b)
    IN  [i \in 1..Len(sub) |-> sub[i].queueSec]

\* the zero-based index of the 90th percentile in a sorted sample of n values
P90Index(n) ==
    LET fl == (n * 9) \div 10
    IN  IF n - 1 < fl THEN n - 1 ELSE fl

\* result[backend] for the sample arr sorted into the order ord
WaitEntry(arr, ord) ==
    LET sorted == [i \in 1..Len(arr) |-> arr[ord[i]]]
    IN  [mean |-> Div(Sum(sorted), Num(Len(sorted))),
         p90 |-> sorted[P90Index(Len(sorted)) + 1],
         count |-> Len(arr)]

\* the results estimateWaitTimesByBackend(js) may return: a function from the
\* backends that have a duration record to their {mean, p90, count}
estimateWaitTimesByBackend(js) ==
    LET durations == computeDurations(js)
        keys == { durations[i].backend : i \in 1..Len(durations) }
        arr(b) == QueueSecsOf(durations, b)
        present == { b \in keys : Len(arr(b)) # 0 }
        orders == UNION { SortOrders(arr(b)) : b \in present }
    IN  { [b \in present |-> WaitEntry(arr(b), ch[b])] :
            ch \in { c \in [present -> orders] :
                        \A b \in present : c[b] \in SortOrders(arr(b)) } }

(***************************************************************************)
(* recommendBackends                                                        *)
(***************************************************************************)
DefaultWeights == [success |-> Rat(1, 2), queue |-> Rat(3, 10), exec |-> Rat(1, 5)]

\* the weights parameter for the arguments a after the jobs: the default
\* when the argument is omitted
WeightsParam(a) == IF a = <<>> THEN DefaultWeights ELSE a[1]

\* the weights the model passes to recommendBackends
WeightChoices ==
    { [success |-> Num(0), queue |-> Num(1), exec |-> Num(0)],
      [success |-> Num(0), queue |-> Num(0), exec |-> Num(1)],
      [success |-> Num(1), queue |-> Num(1), exec |-> Num(1)] }

\* the arguments after the jobs: none, or the weights
WeightArgs == {<<>>} \cup { <<w>> : w \in WeightChoices }

BackendOf(j) == OrElse(j.backend, "Unknown")

\* Array.from(new Set(jobs.map(j => j.backend || 'Unknown')))
BackendsOf(js) == Distinct([i \in 1..Len(js) |-> BackendOf(js[i])])

\* the average of field f over the duration records ds, Infinity for none
AvgQueue(ds) ==
    IF Len(ds) # 0
    THEN Div(Sum([i \in 1..Len(ds) |-> ds[i].queueSec]), Num(Len(ds)))
    ELSE Infinity

AvgExec(ds) ==
    IF Len(ds) # 0
    THEN Div(Sum([i \in 1..Len(ds) |-> ds[i].execSec]), Num(Len(ds)))
    ELSE Infinity

\* mutant: the jobs of a backend are counted by their duration records
StatsOf_DurationCount(js, durations, b) ==
    LET subset == SelectSeq(js, LAMBDA j : BackendOf(j) = b)
        durSubset == SelectSeq(durations, LAMBDA d : d.backend = b)
        n == IF Len(durSubset) # 0 THEN Len(durSubset) ELSE 1
        completed == Len(SelectSeq(subset, LAMBDA j : j.status = "COMPLETED"))
    IN  [backend |-> b,
         success |-> Div(Num(completed), Num(n)),
         avgQueue |-> AvgQueue(durSubset),
         avgExec |-> AvgExec(durSubset),
         count |-> n]

\* the entry of stats for backend b
StatsOf(js, durations, b) ==
    LET subset == SelectSeq(js, LAMBDA j : BackendOf(j) = b)
        n == IF Len(subset) # 0 THEN Len(subset) ELSE 1
        completed == Len(SelectSeq(subset, LAMBDA j : j.status = "COMPLETED"))
        durSubset == SelectSeq(durations, LAMBDA d : d.backend = b)
    IN  [backend |-> b,
         success |-> Div(Num(completed), Num(n)),
         avgQueue |-> AvgQueue(durSubset),
         avgExec |-> AvgExec(durSubset),
         count |-> n]

\* mutant: the filter is left out
FiniteOnly_All(xs) == xs

\* xs.filter(Number.isFinite)
FiniteOnly(xs) == SelectSeq(xs, IsFinite)

\* the bounds of the normalisation
MaxSuccess(stats) == MathMax([i \in 1..Len(stats) |-> stats[i].success] \o <<Num(1)>>)

\* mutant: Math.max where Math.min is meant
MinOf_Max(avgs) == MathMax(FiniteOnly(avgs) \o <<Num(0)>>)

MinOf(avgs) == MathMin(FiniteOnly(avgs) \o <<Num(0)>>)

MaxOf(avgs) == MathMax(FiniteOnly(avgs) \o <<Num(1)>>)

\* 1 - (avg - lo) / (hi - lo) for a finite avg when hi # lo, else 0
Normalised(avg, lo, hi) ==
    IF IsFinite(avg) /\ ~NumEq(hi, lo)
    THEN Sub(Num(1), Div(Sub(avg, lo), Sub(hi, lo)))
    ELSE Num(0)

\* s.success / maxSuccess, 0 when maxSuccess is falsy
SuccessN(success, maxSuccess) ==
    IF ~IsNaN(maxSuccess) /\ maxSuccess # Num(0)
    THEN Div(success, maxSuccess) ELSE Num(0)

QueueN(stats, s) ==
    LET avgs == [i \in 1..Len(stats) |-> stats[i].avgQueue]
    IN  Normalised(s.avgQueue, MinOf(avgs), MaxOf(avgs))

ExecN(stats, s) ==
    LET avgs == [i \in 1..Len(stats) |-> stats[i].avgExec]
    IN  Normalised(s.avgExec, MinOf(avgs), MaxOf(avgs))

\* mutant: the weights are divided by their sum first
Score_Renormalised(stats, s, weights) ==
    LET total == Add(Add(weights.success, weights.queue), weights.exec)
    IN  Add(Add(Mul(Div(weights.success, total), SuccessN(s.success, MaxSuccess(stats))),
                Mul(Div(weights.queue, total), QueueN(stats, s))),
            Mul(Div(weights.exec, total), ExecN(stats, s)))

Score(stats, s, weights) ==
    Add(Add(Mul(weights.success, SuccessN(s.success, MaxSuccess(stats))),
            Mul(weights.queue, QueueN(stats, s))),
        Mul(weights.exec, ExecN(stats, s)))

\* mutant: the comparator a.score - b.score
SortByScore_Ascending(scored) ==
    LET keys == [i \in 1..Len(scored) |-> scored[i].score]
        ord == SortedIndices(keys, Len(keys))
    IN  [i \in 1..Len(scored) |-> scored[ord[i]]]

\* scored.sort((a, b) => b.score - a.score)
SortByScoreDesc(scored) ==
    LET keys == [i \in 1..Len(scored) |-> Neg(scored[i].score)]
        ord == SortedIndices(keys, Len(keys))
    IN  [i \in 1..Len(scored) |-> scored[ord[i]]]

\* recommendBackends from its durations on: stats, scores and the ranking
\* (the display strings `reasons` are left out)
RankBackends(js, durations, weights) ==
    LET backends == BackendsOf(js)
        stats == [i \in 1..Len(backends) |-> StatsOf(js, durations, backends[i])]
        scored == [i \in 1..Len(stats) |->
                     [backend |-> stats[i].backend,
                      success |-> stats[i].success,
                      avgQueue |-> stats[i].avgQueue,
                      avgExec |-> stats[i].avgExec,
                      count |-> stats[i].count,
                      score |-> Score(stats, stats[i], weights)]]
    IN  SortByScoreDesc(scored)

recommendBackends(js, weights) == RankBackends(js, computeDurations(js), weights)

(***************************************************************************)
(* detectAnomalies                                                          *)
(***************************************************************************)
MinStuckSample == 8

WindowSize == 20

MinWindow == 10

ZThreshold == Rat(5, 2)

FailRateThreshold == Rat(1, 2)

\* mutant: the comparison of z with 2.5 is the other way round
ZAbove_Below(q, mean, variance) ==
    LET dev == Sub(q, mean)
    IN  IF IsNaN(variance) \/ variance = Num(0)
        THEN Lt(dev, ZThreshold)
        ELSE \/ ~Gt(dev, Num(0))
             \/ Lt(Mul(dev, dev), Mul(Mul(ZThreshold, ZThreshold), variance))

\* z > 2.5 for z = (q - mean) / std with std = Math.sqrt(variance) || 1; for
\* a positive variance the test is decided on the squares
ZAbove(q, mean, variance) ==
    LET dev == Sub(q, mean)
    IN  IF IsNaN(variance) \/ variance = Num(0)
        THEN Gt(dev, ZThreshold)
        ELSE /\ Gt(dev, Num(0))
             /\ Gt(Mul(dev, dev), Mul(Mul(ZThreshold, ZThreshold), variance))

Mean(arr) == Div(Sum(arr), Num(Len(arr)))

\* mutant: the sample variance (division by n - 1)
Variance_Sample(arr) ==
    LET mean == Mean(arr)
    IN  Div(Sum([i \in 1..Len(arr) |-> Mul(Sub(arr[i], mean), Sub(arr[i], mean))]),
            Num(Len(arr) - 1))

Variance(arr) ==
    LET mean == Mean(arr)
    IN  Div(Sum([i \in 1..Len(arr) |-> Mul(Sub(arr[i], mean), Sub(arr[i], mean))]),
            Num(Len(arr)))

\* mutant: the filter on the backend is left out
StuckCandidates_All(durations, backend) == durations

\* the duration records the z-score of backend is taken of
StuckCandidates(durations, backend) == SelectSeq(durations, LAMBDA d : d.backend = backend)

\* the stuck anomalies of one backend key (the text `details` is left out)
StuckOf(durations, backend) ==
    LET arr == QueueSecsOf(durations, backend)
        mean == Mean(arr)
        variance == Variance(arr)
        flagged == SelectSeq(StuckCandidates(durations, backend),
                             LAMBDA d : ZAbove(d.queueSec, mean, variance))
    IN  IF Len(arr) < MinStuckSample THEN <<>>
        ELSE [i \in 1..Len(flagged) |-> [job_id |-> flagged[i].job_id, type |-> "stuck"]]

\* Object.keys(byBackend): the backends of the duration records in order of
\* first occurrence (no backend name of the lists is an array index, which
\* Object.keys would put first)
StuckAnomalies(durations) ==
    LET keys == Distinct([i \in 1..Len(durations) |-> durations[i].backend])
    IN  Concat([i \in 1..Len(keys) |-> StuckOf(durations, keys[i])])

\* mutant: the window is the first n jobs of the backend
LastN_First(xs, n) == IF Len(xs) <= n THEN xs ELSE SubSeq(xs, 1, n)

\* mutant: the window is all the jobs of the backend
LastN_All(xs, n) == xs

\* arr.slice(-n)
LastN(xs, n) == IF Len(xs) <= n THEN xs ELSE SubSeq(xs, Len(xs) - n + 1, Len(xs))

\* the failure_cluster anomaly of backend b, if any
FailureClusterOf(js, b) ==
    LET recent == LastN(SelectSeq(js, LAMBDA j : BackendOf(j) = b), WindowSize)
        failed == Len(SelectSeq(recent, LAMBDA j : j.status = "FAILED"))
    IN  IF Len(recent) >= MinWindow
           /\ Ge(Div(Num(failed), Num(Len(recent))), FailRateThreshold)
        THEN << [job_id |-> recent[Len(recent)].job_id, type |-> "failure_cluster"] >>
        ELSE <<>>

FailureClusters(js) ==
    LET backends == BackendsOf(js)
    IN  Concat([i \in 1..Len(backends) |-> FailureClusterOf(js, backends[i])])

\* mutant: the failure clusters are pushed before the stuck anomalies
detectAnomalies_ClustersFirst(js) ==
    FailureClusters(js) \o StuckAnomalies(computeDurations(js))

detectAnomalies(js) == StuckAnomalies(computeDurations(js)) \o FailureClusters(js)

(***************************************************************************)
(* detectAnomalies in IEEE-754 doubles.  The z-score of lines 116-123 is    *)
(* computed here as the engine computes it: every +, -, *, / and Math.sqrt  *)
(* is the exact result rounded to the nearest double, ties to even.  A      *)
(* double is a sign, a significand of 53 bits and an exponent; the numbers  *)
(* of the lists are far from overflow and underflow, which are left out.    *)
(***************************************************************************)
\* the bits of a double's significand
Precision == 53

\* natural numbers as sequences of digits of DigitBits bits, the least
\* significant first and the most significant not 0
DigitBits == 15

Base == 2^DigitBits

RECURSIVE NatOf(_)
NatOf(n) == IF n = 0 THEN <<>> ELSE <<n % Base>> \o NatOf(n \div Base)

DigitAt(a, i) == IF i <= Len(a) THEN a[i] ELSE 0

RECURSIVE NTrim(_)
NTrim(a) == IF a # <<>> /\ a[Len(a)] = 0 THEN NTrim(SubSeq(a, 1, Len(a) - 1)) ELSE a

\* a + b + c from digit i on, c the carry
RECURSIVE NAddFrom(_, _, _, _)
NAddFrom(a, b, i, c) ==
    IF i > Len(a) /\ i > Len(b)
    THEN IF c = 0 THEN <<>> ELSE <<c>>
    ELSE LET t == DigitAt(a, i) + DigitAt(b, i) + c
         IN  <<t % Base>> \o NAddFrom(a, b, i + 1, t \div Base)

NAdd(a, b) == NAddFrom(a, b, 1, 0)

\* a - b - c from digit i on, c the borrow, for a >= b
RECURSIVE NSubFrom(_, _, _, _)
NSubFrom(a, b, i, c) ==
    IF i > Len(a) THEN <<>>
    ELSE LET t == a[i] - DigitAt(b, i) - c
         IN  <<(t + Base) % Base>> \o NSubFrom(a, b, i + 1, IF t < 0 THEN 1 ELSE 0)

NSub(a, b) == NTrim(NSubFrom(a, b, 1, 0))

RECURSIVE NLessFrom(_, _, _)
NLessFrom(a, b, i) ==
    IF i = 0 THEN FALSE
    ELSE IF a[i] # b[i] THEN a[i] < b[i] ELSE NLessFrom(a, b, i - 1)

\* a < b
NLess(a, b) == IF Len(a) # Len(b) THEN Len(a) < Len(b) ELSE NLessFrom(a, b, Len(a))

\* a * d + c from digit i on, for a digit d
RECURSIVE NTimesFrom(_, _, _, _)
NTimesFrom(a, d, i, c) ==
    IF i > Len(a)
    THEN IF c = 0 THEN <<>> ELSE <<c>>
    ELSE LET t == a[i] * d + c
         IN  <<t % Base>> \o NTimesFrom(a, d, i + 1, t \div Base)

NTimes(a, d) == IF d = 0 THEN <<>> ELSE NTimesFrom(a, d, 1, 0)

\* a * Base^k
NShiftDigits(a, k) ==
    IF a = <<>> THEN <<>> ELSE [i \in 1..k |-> 0] \o a

\* a * (b from digit i on)
RECURSIVE NMulFrom(_, _, _)
NMulFrom(a, b, i) ==
    IF i > Len(b) THEN <<>>
    ELSE NAdd(NTimes(a, b[i]), NShiftDigits(NMulFrom(a, b, i + 1), 1))

NMul(a, b) == NMulFrom(a, b, 1)

\* a * 2^k
NShl(a, k) == NShiftDigits(NTimes(a, 2^(k % DigitBits)), k \div DigitBits)

\* the floor of a / 2^k
NShr(a, k) ==
    LET d == k \div DigitBits
        s == k % DigitBits
    IN  IF Len(a) <= d THEN <<>>
        ELSE NTrim(<<>> \o [i \in 1..(Len(a) - d) |->
                                (a[i + d] \div 2^s)
                                + (DigitAt(a, i + d + 1) % 2^s) * 2^(DigitBits - s)])

RECURSIVE BitsIn(_)
BitsIn(d) == IF d = 0 THEN 0 ELSE 1 + BitsIn(d \div 2)

\* the number of bits of a
NBits(a) == IF a = <<>> THEN 0 ELSE DigitBits * (Len(a) - 1) + BitsIn(a[Len(a)])

\* long division by b # 0: b * 2^i is taken from the remainder r, for i
\* down to 0 and for at most `left` bits; q is the quotient so far
RECURSIVE NDivRun(_, _, _, _, _)
NDivRun(r, b, i, left, q) ==
    IF i < 0 \/ left = 0 THEN [q |-> q, r |-> r, i |-> i]
    ELSE LET t == NShl(b, i)
         IN  IF NLess(r, t)
             THEN NDivRun(r, b, i - 1, left - 1, q)
             ELSE NDivRun(NSub(r, t), b, i - 1, left - 1, NAdd(q, NShl(<<1>>, i)))

\* the same, one digit of the quotient after the other
RECURSIVE NDivFrom(_, _, _, _)
NDivFrom(r, b, i, q) ==
    IF i < 0 THEN [q |-> q, r |-> r]
    ELSE LET run == NDivRun(r, b, i, DigitBits, q)
         IN  NDivFrom(run.r, b, run.i, run.q)

NDivMod(a, b) == NDivFrom(a, b, NBits(a) - NBits(b), <<>>)

\* the floor s of the square root of a, bit by bit from bit i down and for
\* at most `left` bits
RECURSIVE NSqrtRun(_, _, _, _)
NSqrtRun(a, i, left, s) ==
    IF i < 0 \/ left = 0 THEN [s |-> s, i |-> i]
    ELSE LET t == NAdd(s, NShl(<<1>>, i))
         IN  IF NLess(a, NMul(t, t))
             THEN NSqrtRun(a, i - 1, left - 1, s)
             ELSE NSqrtRun(a, i - 1, left - 1, t)

\* the same, one digit of the root after the other, and the rest a - s * s
RECURSIVE NSqrtFrom(_, _, _)
NSqrtFrom(a, i, s) ==
    IF i < 0 THEN [s |-> s, r |-> NSub(a, NMul(s, s))]
    ELSE LET run == NSqrtRun(a, i, DigitBits, s)
         IN  NSqrtFrom(a, run.i, run.s)

NSqrtRem(a) == NSqrtFrom(a, NBits(a) \div 2, <<>>)

\* the double (-1)^neg * m * 2^e; m is <<>> for zero, else of Precision bits
Double(neg, m, e) == [neg |-> neg, m |-> m, e |-> e]

DZero == Double(FALSE, <<>>, 0)

\* the double nearest to (-1)^neg * (m + f) * 2^e, ties to even, where f is
\* 0, or some fraction below 1 if inexact; the callers give m two bits
\* more than Precision, or more, whenever it is inexact
DRound(neg, m, e, inexact) ==
    LET len == NBits(m)
        drop == len - Precision
        kept == NShr(m, drop)
        rest == NSub(m, NShl(kept, drop))
        half == NShl(<<1>>, drop - 1)
        up == IF rest = half THEN inexact \/ kept[1] % 2 = 1 ELSE NLess(half, rest)
        rounded == IF up THEN NAdd(kept, <<1>>) ELSE kept
    IN  IF m = <<>> THEN DZero
        ELSE IF len <= Precision THEN Double(neg, NShl(m, 0 - drop), e + drop)
        ELSE IF NBits(rounded) > Precision THEN Double(neg, NShr(rounded, 1), e + drop + 1)
        ELSE Double(neg, rounded, e + drop)

DNeg(x) == IF x.m = <<>> THEN x ELSE Double(~x.neg, x.m, x.e)

\* x + y
DAdd(x, y) ==
    IF x.m = <<>> THEN y
    ELSE IF y.m = <<>> THEN x
    ELSE LET e == IF x.e < y.e THEN x.e ELSE y.e
             a == NShl(x.m, x.e - e)
             b == NShl(y.m, y.e - e)
         IN  IF x.neg = y.neg THEN DRound(x.neg, NAdd(a, b), e, FALSE)
             ELSE IF NLess(a, b) THEN DRound(y.neg, NSub(b, a), e, FALSE)
             ELSE DRound(x.neg, NSub(a, b), e, FALSE)

\* x - y
DSub(x, y) == DAdd(x, DNeg(y))

\* x * y
DMul(x, y) ==
    IF x.m = <<>> \/ y.m = <<>> THEN DZero
    ELSE DRound(x.neg # y.neg, NMul(x.m, y.m), x.e + y.e, FALSE)

\* x / y for y # 0
DDiv(x, y) ==
    IF x.m = <<>> THEN DZero
    ELSE LET qr == NDivMod(NShl(x.m, Precision + 3), y.m)
         IN  DRound(x.neg # y.neg, qr.q, x.e - (Precision + 3) - y.e, qr.r # <<>>)

\* Math.sqrt(x) for x >= 0
DSqrt(x) ==
    IF x.m = <<>> THEN DZero
    ELSE LET k == IF (x.e - (Precision + 5)) % 2 = 0 THEN Precision + 5 ELSE Precision + 6
             sr == NSqrtRem(NShl(x.m, k))
         IN  DRound(FALSE, sr.s, (x.e - k) \div 2, sr.r # <<>>)

\* x > y
DGt(x, y) == LET d == DSub(x, y) IN d.m # <<>> /\ ~d.neg

\* the double of the integer n
DInt(n) == DRound(n < 0, NatOf(Abs(n)), 0, FALSE)

\* the double of the finite number q: the quotient of two integers, as
\* (end - start) / 1000 is
DNum(q) == DDiv(DInt(q.n), DInt(q.d))

\* F(v); TLC computes v before it evaluates F
Eager(v, F(_)) == CHOOSE r \in { F(x) : x \in {v} } : TRUE

\* the doubles of the finite numbers arr
RECURSIVE DoublesOf(_)
DoublesOf(arr) == IF arr = <<>> THEN <<>> ELSE <<DNum(Head(arr))>> \o DoublesOf(Tail(arr))

\* arr.reduce((a, b) => a + b, 0)
RECURSIVE DSum(_)
DSum(arr) ==
    IF arr = <<>> THEN DZero ELSE DAdd(DSum(SubSeq(arr, 1, Len(arr) - 1)), arr[Len(arr)])

\* arr.reduce((a, b) => a + (b - mean) * (b - mean), 0)
RECURSIVE DSumSquares(_, _)
DSumSquares(arr, mean) ==
    IF arr = <<>> THEN DZero
    ELSE DAdd(DSumSquares(SubSeq(arr, 1, Len(arr) - 1), mean),
              DMul(DSub(arr[Len(arr)], mean), DSub(arr[Len(arr)], mean)))

\* the duration records of backend with z > 2.5, lines 119-123 in doubles
FlaggedDouble(durations, backend, mean, std) ==
    SelectSeq(StuckCandidates(durations, backend),
              LAMBDA d : DGt(DDiv(DSub(DNum(d.queueSec), mean), std), DNum(ZThreshold)))

\* the stuck anomalies of one backend key, lines 114-126 in doubles
StuckOfDouble(durations, backend) ==
    IF Len(QueueSecsOf(durations, backend)) < MinStuckSample THEN <<>>
    ELSE Eager(DoublesOf(QueueSecsOf(durations, backend)), LAMBDA arr :
         Eager(DDiv(DSum(arr), DInt(Len(arr))), LAMBDA mean :
         Eager(DDiv(DSumSquares(arr, mean), DInt(Len(arr))), LAMBDA variance :
         Eager(DSqrt(variance), LAMBDA root :
         Eager(IF root.m = <<>> THEN DInt(1) ELSE root, LAMBDA std :
         Eager(FlaggedDouble(durations, backend, mean, std), LAMBDA flagged :
             [i \in 1..Len(flagged) |->
                 [job_id |-> flagged[i].job_id, type |-> "stuck"]]))))))

StuckAnomaliesDouble(durations) ==
    LET keys == Distinct([i \in 1..Len(durations) |-> durations[i].backend])
    IN  Concat([i \in 1..Len(keys) |-> StuckOfDouble(durations, keys[i])])

detectAnomaliesDouble(js) ==
    StuckAnomaliesDouble(computeDurations(js)) \o FailureClusters(js)

(***************************************************************************)
(* The calls.  The four functions are synchronous: a call runs to its       *)
(* return, or to the exception it throws, before the caller makes another.  *)
(* jobs is the caller's array, which every call gets by reference; given    *)
(* keeps the list as the caller built it and calls counts the calls that    *)
(* have ended.  The module keeps no state between calls.                    *)
(***************************************************************************)
\* the longest series of calls that is counted
MaxCalls == 2

\* mutant: the filter removes the jobs from the array it is called on
JobsAfter_FilteredInPlace(js) == SelectSeq(js, HasCreationTime)

\* mutant: the array is reversed in place
JobsAfter_Reversed(js) == [i \in 1..Len(js) |-> js[Len(js) + 1 - i]]

\* the caller's array after a call: the functions read jobs through filter
\* and map only, which build new arrays, and assign to no field of a job
JobsAfter(js) == js

(***************************************************************************)
(* App (src/unnamed/part_002) and its JobsTable (src/src/types/Job.ts).     *)
(* A job array is modelled by its length: jobsLength is jobs.length of      *)
(* App's jobs state and sortedLength that of sortedJobs, the jobs prop of   *)
(* JobsTable.  filtered tells whether a filter or a search is set, inFlight *)
(* counts the fetchJobs calls awaiting loadJobs, outcome is how the latest  *)
(* settled one ended and mounted whether the mount effect has run.  The     *)
(* state updates of one handler are applied together (one render).          *)
(***************************************************************************)
app == <<loading, refreshing, error, jobsLength, filtered, sortedLength,
         currentPage, inFlight, outcome, mounted>>

JOBS_PER_PAGE == 50

\* the most pages a loaded list fills
MaxPages == 3

\* the lengths of the lists loaded and of the lists a filter leaves: around
\* each page boundary
LoadSizes ==
    {0, 1} \cup { p * JOBS_PER_PAGE + d : p \in 1..(MaxPages - 1), d \in {0, 1} }
           \cup { MaxPages * JOBS_PER_PAGE }

LoadError == Str("Failed to load job data. Please try again later.")

\* Math.ceil(jobs.length / JOBS_PER_PAGE)
TotalPages(length) == (length + JOBS_PER_PAGE - 1) \div JOBS_PER_PAGE

StartIndex(page) == (page - 1) * JOBS_PER_PAGE

EndIndex(page) == StartIndex(page) + JOBS_PER_PAGE

Min2(a, b) == IF a < b THEN a ELSE b

\* the length of jobs.slice(start, end), 0 <= start <= end
SliceLength(length, start, end) == Min2(end, length) - Min2(start, length)

CurrentJobsLength == SliceLength(sortedLength, StartIndex(currentPage), EndIndex(currentPage))

\* the dashboard is rendered: neither the spinner nor the error screen
DashboardShown == ~loading /\ error = Null

\* a filter or a search keeps any number of the jobs; none set keeps all
FilteredLengths(isFiltered, length) ==
    IF isFiltered THEN { m \in LoadSizes : m <= length } ELSE {length}

\* the state of the first render
AppInit ==
    /\ loading = TRUE
    /\ refreshing = FALSE
    /\ error = Null
    /\ jobsLength = 0
    /\ filtered = FALSE
    /\ sortedLength = 0
    /\ currentPage = 1
    /\ inFlight = 0
    /\ outcome = "none"
    /\ mounted = FALSE

\* fetchJobs up to its await
FetchJobsStart ==
    /\ refreshing' = TRUE
    /\ inFlight' = inFlight + 1
    /\ UNCHANGED <<loading, error, jobsLength, filtered, sortedLength,
                   currentPage, outcome>>

\* the mount effect
Mount ==
    /\ ~mounted
    /\ mounted' = TRUE
    /\ FetchJobsStart
    /\ UNCHANGED analytics

\* the Refresh button of the dashboard header
HandleRefreshAll ==
    /\ DashboardShown
    /\ ~refreshing
    /\ FetchJobsStart
    /\ UNCHANGED <<mounted, analytics>>

\* mutant: the flags are reset after a successful load only
FetchJobsFinally_OnSuccessOnly ==
    IF error' = Null
    THEN loading' = FALSE /\ refreshing' = FALSE
    ELSE UNCHANGED <<loading, refreshing>>

\* the finally block of fetchJobs
FetchJobsFinally ==
    /\ loading' = FALSE
    /\ refreshing' = FALSE

\* fetchJobs after loadJobs resolved with n jobs
FetchJobsLoaded(n) ==
    /\ inFlight > 0
    /\ inFlight' = inFlight - 1
    /\ jobsLength' = n
    /\ error' = Null
    /\ \E m \in FilteredLengths(filtered, n) : sortedLength' = m
    /\ FetchJobsFinally
    /\ UNCHANGED <<filtered, currentPage, mounted, analytics>>

\* loadJobs parsed the CSV text
FetchResolved ==
    \E n \in LoadSizes :
        /\ FetchJobsLoaded(n)
        /\ outcome' = "parsed"

\* fetch or response.text() failed: loadJobs catches and returns []
FetchFailed ==
    /\ FetchJobsLoaded(0)
    /\ outcome' = "network failure"

\* the parser reported an error and loadJobs rejected: the error screen
\* replaces the dashboard, and the JobsTable with its page state is gone
FetchRejected ==
    /\ inFlight > 0
    /\ inFlight' = inFlight - 1
    /\ error' = LoadError
    /\ FetchJobsFinally
    /\ outcome' = "rejected"
    /\ currentPage' = 1
    /\ UNCHANGED <<jobsLength, filtered, sortedLength, mounted, analytics>>

\* a filter or the search box is changed
SetFilter ==
    /\ DashboardShown
    /\ \E f \in BOOLEAN :
          /\ filtered' = f
          /\ \E m \in FilteredLengths(f, jobsLength) : sortedLength' = m
    /\ UNCHANGED <<loading, refreshing, error, jobsLength, currentPage,
                   inFlight, outcome, mounted, analytics>>

\* the Previous button
PreviousPage ==
    /\ DashboardShown
    /\ TotalPages(sortedLength) > 1
    /\ currentPage # 1
    /\ currentPage' = currentPage - 1
    /\ UNCHANGED <<loading, refreshing, error, jobsLength, filtered,
                   sortedLength, inFlight, outcome, mounted, analytics>>

\* the Next button; the page number is followed up to MaxPages + 1
NextPage ==
    /\ DashboardShown
    /\ TotalPages(sortedLength) > 1
    /\ currentPage # TotalPages(sortedLength)
    /\ currentPage <= MaxPages
    /\ currentPage' = currentPage + 1
    /\ UNCHANGED <<loading, refreshing, error, jobsLength, filtered,
                   sortedLength, inFlight, outcome, mounted, analytics>>

Init ==
    /\ AppInit
    /\ jobs \in JobLists
    /\ given = jobs
    /\ calls = 0
    /\ fn = "none"
    /\ args = <<>>
    /\ result = <<>>
    /\ thrown = "none"

ComputeDurations ==
    /\ fn = "none"
    /\ fn' = "computeDurations"
    /\ args' = <<>>
    /\ result' = computeDurations(jobs)
    /\ thrown' = "none"
    /\ jobs' = JobsAfter(jobs)
    /\ UNCHANGED <<given, calls, app>>

EstimateWaitTimesByBackend ==
    /\ fn = "none"
    /\ fn' = "estimateWaitTimesByBackend"
    /\ args' = <<>>
    /\ IF GroupingThrows(computeDurations(jobs))
       THEN thrown' = "TypeError" /\ result' = <<>>
       ELSE /\ thrown' = "none"
            /\ \E r \in estimateWaitTimesByBackend(jobs) : result' = r
    /\ jobs' = JobsAfter(jobs)
    /\ UNCHANGED <<given, calls, app>>

RecommendBackends ==
    \E a \in WeightArgs :
        /\ fn = "none"
        /\ fn' = "recommendBackends"
        /\ args' = a
        /\ result' = recommendBackends(jobs, WeightsParam(a))
        /\ thrown' = "none"
        /\ jobs' = JobsAfter(jobs)
        /\ UNCHANGED <<given, calls, app>>

DetectAnomalies ==
    /\ fn = "none"
    /\ fn' = "detectAnomalies"
    /\ args' = <<>>
    /\ IF GroupingThrows(computeDurations(jobs))
       THEN thrown' = "TypeError" /\ result' = <<>>
       ELSE thrown' = "none" /\ result' = detectAnomalies(jobs)
    /\ jobs' = JobsAfter(jobs)
    /\ UNCHANGED <<given, calls, app>>

\* the caller drops the result and may call again
Return ==
    /\ fn # "none"
    /\ fn' = "none"
    /\ args' = <<>>
    /\ result' = <<>>
    /\ thrown' = "none"
    /\ UNCHANGED <<jobs, given, calls, app>>

Next ==
    \/ Return
    \/ ComputeDurations
    \/ EstimateWaitTimesByBackend
    \/ RecommendBackends
    \/ DetectAnomalies

Spec == Init /\ [][Next]_vars

NextWeights ==
    \/ Return
    \/ RecommendBackends

\* the calls of recommendBackends, with and without weights
SpecWeights == Init /\ [][NextWeights]_vars

\* the calls on the long lists
InitLong ==
    /\ AppInit
    /\ jobs \in LongLists
    /\ given = jobs
    /\ calls = 0
    /\ fn = "none"
    /\ args = <<>>
    /\ result = <<>>
    /\ thrown = "none"

SpecLong == InitLong /\ [][Next]_vars

\* detectAnomalies with its arithmetic in doubles
DetectAnomaliesDouble ==
    /\ fn = "none"
    /\ fn' = "detectAnomalies"
    /\ args' = <<>>
    /\ IF GroupingThrows(computeDurations(jobs))
       THEN thrown' = "TypeError" /\ result' = <<>>
       ELSE thrown' = "none" /\ result' = detectAnomaliesDouble(jobs)
    /\ jobs' = JobsAfter(jobs)
    /\ UNCHANGED <<given, calls, app>>

InitDouble ==
    /\ AppInit
    /\ jobs \in DoubleLists
    /\ given = jobs
    /\ calls = 0
    /\ fn = "none"
    /\ args = <<>>
    /\ result = <<>>
    /\ thrown = "none"

NextDouble ==
    \/ Return
    \/ DetectAnomaliesDouble

\* the calls of detectAnomalies on the lists of whole seconds
SpecDouble == InitDouble /\ [][NextDouble]_vars

\* the series of calls are made on the lists of fewer than MaxJobs jobs
InitCalls ==
    /\ Init
    /\ Len(jobs) < MaxJobs

\* the caller drops the result, and the call is counted
ReturnCounted ==
    /\ fn # "none"
    /\ calls < MaxCalls
    /\ fn' = "none"
    /\ args' = <<>>
    /\ result' = <<>>
    /\ thrown' = "none"
    /\ calls' = calls + 1
    /\ UNCHANGED <<jobs, given, app>>

NextCalls ==
    \/ ReturnCounted
    \/ ComputeDurations
    \/ EstimateWaitTimesByBackend
    \/ RecommendBackends
    \/ DetectAnomalies

\* series of up to MaxCalls + 1 calls, in any order, on one list
SpecCalls == InitCalls /\ [][NextCalls]_vars

\* the calls that settle a fetch
Settle ==
    \/ FetchResolved
    \/ FetchFailed
    \/ FetchRejected

InitApp ==
    /\ AppInit
    /\ jobs = <<>>
    /\ given = jobs
    /\ calls = 0
    /\ fn = "none"
    /\ args = <<>>
    /\ result = <<>>
    /\ thrown = "none"

NextApp ==
    \/ Mount
    \/ HandleRefreshAll
    \/ FetchResolved
    \/ FetchFailed
    \/ FetchRejected
    \/ SetFilter
    \/ PreviousPage
    \/ NextPage

\* the dashboard: loads, filters and page clicks in any order
SpecApp == InitApp /\ [][NextApp]_vars

\* the promise of loadJobs settles: fetch resolves or rejects, and the
\* parser calls complete or error
SpecAppFair == SpecApp /\ WF_vars(Settle)

(***************************************************************************)
(* Properties                                                               *)
(***************************************************************************)
Zero == Num(0)

One == Num(1)

\* the creation_time of job j is a non-empty string
NonEmptyCreation(j) == ~j.creation_time.isNull /\ j.creation_time.str # ""

\* the creation_time of job j parses as a date
ParseableCreation(j) == NonEmptyCreation(j) /\ ~IsNaN(DateGetTime(j.creation_time.str))

\* the backend name job j is grouped under
GroupOf(j) == IF j.backend.isNull \/ j.backend.str = "" THEN "Unknown" ELSE j.backend.str

\* C1: every record returned by computeDurations has queueSec >= 0 and
\* execSec >= 0 (neither is NaN, neither is negative)
C1_NonNegativeDurations ==
    fn = "computeDurations" =>
        \A i \in 1..Len(result) :
            Ge(result[i].queueSec, Zero) /\ Ge(result[i].execSec, Zero)

\* C2: a job whose creation_time is absent or does not parse as a date has
\* no record in the output of computeDurations
C2_UnparseableCreationExcluded ==
    fn = "computeDurations" =>
        \A i \in 1..Len(jobs) :
            ~ParseableCreation(jobs[i]) =>
                \A k \in 1..Len(result) : result[k].job_id # jobs[i].job_id

\* the positions of the jobs with a truthy creation_time
C3_Kept == { i \in 1..Len(jobs) : NonEmptyCreation(jobs[i]) }

\* C3: computeDurations returns exactly one record per job with a truthy
\* creation_time, in the order of the input, and none for the other jobs
C3_OneRecordPerTruthyCreation ==
    fn = "computeDurations" =>
        /\ Len(result) = Cardinality(C3_Kept)
        /\ Len(result) <= Len(jobs)
        /\ \A i \in C3_Kept :
              result[Cardinality({ j \in C3_Kept : j <= i })].job_id = jobs[i].job_id

\* C3 witness: a job without creation_time was dropped from between two
\* jobs that were kept
C3_Witness ==
    /\ fn = "computeDurations"
    /\ Len(result) = 2
    /\ Len(jobs) = 3
    /\ ~NonEmptyCreation(jobs[2])

\* the queueSec sample of backend b
C4_Sample(b) ==
    LET ds == computeDurations(jobs)
        at == { i \in 1..Len(ds) : ds[i].backend = b }
    IN  [i \in at |-> ds[i].queueSec]

\* C4: p90 is the element at index min(n-1, floor(0.9 n)) of the backend's
\* sample sorted ascending: it is an element of the sample, at most that
\* many elements are smaller and at most n-1 minus that many are larger
C4_P90IsNearestRank ==
    (fn = "estimateWaitTimesByBackend" /\ thrown = "none") =>
        \A b \in DOMAIN result :
            LET sample == C4_Sample(b)
                n == Cardinality(DOMAIN sample)
                fl == (9 * n) \div 10
                k == IF fl < n - 1 THEN fl ELSE n - 1
                p90 == result[b].p90
            IN  /\ \E i \in DOMAIN sample : sample[i] = p90
                /\ Cardinality({ i \in DOMAIN sample : Lt(sample[i], p90) }) <= k
                /\ Cardinality({ i \in DOMAIN sample : Lt(p90, sample[i]) }) <= n - 1 - k

\* the weights are each in [0, 1] and sum to 1
C5_Normalised(w) ==
    /\ Le(Zero, w.success) /\ Le(w.success, One)
    /\ Le(Zero, w.queue) /\ Le(w.queue, One)
    /\ Le(Zero, w.exec) /\ Le(w.exec, One)
    /\ Add(Add(w.success, w.queue), w.exec) = One

\* C5: with weights in [0, 1] that sum to 1 every score is in [0, 1]
C5_ScoreBound ==
    (fn = "recommendBackends" /\ C5_Normalised(WeightsParam(args))) =>
        \A i \in 1..Len(result) :
            Le(Zero, result[i].score) /\ Le(result[i].score, One)

\* C5 witness: under the default weights one backend reaches score 1 and
\* another, without duration records, is scored too
C5_Witness ==
    /\ fn = "recommendBackends"
    /\ WeightsParam(args) = DefaultWeights
    /\ \E i \in 1..Len(result) : result[i].score = One
    /\ \E i \in 1..Len(result) : result[i].avgQueue = Infinity

\* the duration records ds with every queueSec and execSec multiplied by c
C6_Scaled(ds, c) ==
    [i \in 1..Len(ds) |->
        [job_id |-> ds[i].job_id, backend |-> ds[i].backend,
         backend_type |-> ds[i].backend_type, status |-> ds[i].status,
         queueSec |-> Mul(ds[i].queueSec, c), execSec |-> Mul(ds[i].execSec, c)]]

C6_Factors == { Num(2), Num(10), Rat(1, 10) }

C6_Order(ranked) == [i \in 1..Len(ranked) |-> ranked[i].backend]

\* C6: multiplying every queueSec and execSec by the same positive constant
\* leaves the order of the backends returned by recommendBackends unchanged
C6_RankingScaleInvariant ==
    fn = "recommendBackends" =>
        \A c \in C6_Factors :
            C6_Order(RankBackends(jobs, C6_Scaled(computeDurations(jobs), c), WeightsParam(args)))
                = C6_Order(result)

\* the first position of a job of backend b in the input
C7_FirstSeen(b) ==
    CHOOSE i \in 1..Len(jobs) :
        /\ GroupOf(jobs[i]) = b
        /\ \A j \in 1..(i - 1) : GroupOf(jobs[j]) # b

\* C7: recommendBackends returns its entries by non-increasing score, and
\* entries of equal score in the order their backends first occur in the input
C7_SortedByScoreStable ==
    fn = "recommendBackends" =>
        \A i, j \in 1..Len(result) :
            i < j =>
                /\ Ge(result[i].score, result[j].score)
                /\ result[i].score = result[j].score =>
                      C7_FirstSeen(result[i].backend) < C7_FirstSeen(result[j].backend)

\* C7 witness: three backends, two of equal score behind one of a higher score
C7_Witness ==
    /\ fn = "recommendBackends"
    /\ Len(result) = 3
    /\ Gt(result[1].score, result[2].score)
    /\ result[2].score = result[3].score
    /\ C7_FirstSeen(result[1].backend) > C7_FirstSeen(result[2].backend)

QueueOnly == [success |-> Zero, queue |-> One, exec |-> Zero]

ExecOnly == [success |-> Zero, queue |-> Zero, exec |-> One]

\* C8: when every backend has the same finite avgQueue, queueN is 0 for every
\* backend (score 0 under weights {success: 0, queue: 1, exec: 0}); likewise
\* for avgExec and execN
C8_EqualAveragesNormaliseToZero ==
    fn = "recommendBackends" =>
        /\ (/\ WeightsParam(args) = QueueOnly
            /\ \A i \in 1..Len(result) :
                  IsFinite(result[i].avgQueue) /\ result[i].avgQueue = result[1].avgQueue)
              => \A i \in 1..Len(result) : result[i].score = Zero
        /\ (/\ WeightsParam(args) = ExecOnly
            /\ \A i \in 1..Len(result) :
                  IsFinite(result[i].avgExec) /\ result[i].avgExec = result[1].avgExec)
              => \A i \in 1..Len(result) : result[i].score = Zero

\* the number of duration records of backend b
C9_Records(b) ==
    Cardinality({ i \in 1..Len(jobs) : NonEmptyCreation(jobs[i]) /\ GroupOf(jobs[i]) = b })

C9_JobWithId(id) == CHOOSE i \in 1..Len(jobs) : jobs[i].job_id = id

\* C9: no job of a backend with fewer than 8 duration records gets a
\* 'stuck' anomaly
C9_NoStuckBelowEightRecords ==
    fn = "detectAnomalies" =>
        \A a \in 1..Len(result) :
            result[a].type = "stuck" =>
                C9_Records(GroupOf(jobs[C9_JobWithId(result[a].job_id)])) >= 8

\* C9 witness: detectAnomalies ran on a list in which one backend has exactly
\* 7 duration records of differing queue times and another has 8 or more
C9_Witness ==
    /\ fn = "detectAnomalies"
    /\ \E i, j, k \in 1..Len(jobs) :
          /\ C9_Records(GroupOf(jobs[i])) = 7
          /\ GroupOf(jobs[j]) = GroupOf(jobs[i])
          /\ jobs[i].end_time # jobs[j].end_time
          /\ C9_Records(GroupOf(jobs[k])) >= 8

\* the queueSec of the job at position i
C10_Queue(i) == DurationOf(jobs[i]).queueSec

\* the sum of the queueSec (of their squares, if sq) of the duration records
\* of backend b among the first m jobs
RECURSIVE C10_SumOf(_, _, _)
C10_SumOf(m, b, sq) ==
    IF m = 0 THEN Zero
    ELSE LET q == C10_Queue(m)
             term == IF NonEmptyCreation(jobs[m]) /\ GroupOf(jobs[m]) = b
                     THEN (IF sq THEN Mul(q, q) ELSE q) ELSE Zero
         IN  Add(C10_SumOf(m - 1, b, sq), term)

\* z > 2.5 for a job of queue time q, from the number n, the sum S and the
\* sum of squares SS of its backend's queue times: n q > S and
\* 4 (n q - S)^2 > 25 (n SS - S^2)
C10_ZAbove(q, n, S, SS) ==
    LET lhs == Sub(Mul(n, q), S)
    IN  /\ Gt(lhs, Zero)
        /\ Gt(Mul(Num(4), Mul(lhs, lhs)), Mul(Num(25), Sub(Mul(n, SS), Mul(S, S))))

C11_Positions(b) == { i \in 1..Len(jobs) : GroupOf(jobs[i]) = b }

\* the window of backend b: the positions of its last 20 jobs, or of all
C11_Window(b) ==
    { i \in C11_Positions(b) :
        Cardinality({ k \in C11_Positions(b) : k > i }) < 20 }

C11_Failed(b) == { i \in C11_Window(b) : jobs[i].status = "FAILED" }

\* the positions in the result of the failure clusters attributed to a job
\* of backend b
C11_Clusters(b) ==
    { k \in 1..Len(result) :
        /\ result[k].type = "failure_cluster"
        /\ \E i \in C11_Positions(b) : jobs[i].job_id = result[k].job_id }

C11_Last(b) == CHOOSE i \in C11_Window(b) : \A k \in C11_Window(b) : k <= i

\* C11: in what detectAnomalies returns, a backend whose window of the last 20 jobs holds at least 10 jobs, at
\* least half of them FAILED, gets exactly one failure_cluster anomaly, on
\* the last job of the window; with fewer than half FAILED it gets none
C11_FailureClusterOnLastJob ==
    (fn = "detectAnomalies" /\ thrown = "none") =>
        \A b \in { GroupOf(jobs[i]) : i \in 1..Len(jobs) } :
            LET size == Cardinality(C11_Window(b))
                failed == Cardinality(C11_Failed(b))
            IN  /\ (size >= 10 /\ 2 * failed >= size) =>
                    /\ Cardinality(C11_Clusters(b)) = 1
                    /\ \A k \in C11_Clusters(b) :
                          result[k].job_id = jobs[C11_Last(b)].job_id
                /\ 2 * failed < size => C11_Clusters(b) = {}

\* a backend of more than 20 jobs, half of the last 20 FAILED and fewer than
\* half of all, has its failure cluster on its last job
C11_Witness ==
    /\ fn = "detectAnomalies"
    /\ \E b \in { GroupOf(jobs[i]) : i \in 1..Len(jobs) } :
          /\ Cardinality(C11_Positions(b)) > 20
          /\ Cardinality(C11_Window(b)) = 20
          /\ Cardinality(C11_Failed(b)) = 10
          /\ 2 * Cardinality({ i \in C11_Positions(b) : jobs[i].status = "FAILED" })
                < Cardinality(C11_Positions(b))
          /\ Cardinality(C11_Clusters(b)) = 1

(***************************************************************************)
(* C12: no call throws                                                      *)
(***************************************************************************)
\* C12: whatever the field values of the job records are, each of the four
\* functions returns: no call ends in an exception
C12_NeverThrows == thrown = "none"

C15_Members(b) ==
    { i \in 1..Len(jobs) : NonEmptyCreation(jobs[i]) /\ GroupOf(jobs[i]) = b }

\* the sum of the queueSec of the duration records of the jobs at positions
\* at among the first m jobs
RECURSIVE C15_QueueSum(_, _)
C15_QueueSum(m, at) ==
    IF m = 0 THEN Zero
    ELSE IF m \in at
         THEN Add(C15_QueueSum(m - 1, at), DurationOf(jobs[m]).queueSec)
         ELSE C15_QueueSum(m - 1, at)

\* the sum of result[b].count over the backends bs
RECURSIVE C15_CountSum(_)
C15_CountSum(bs) ==
    IF bs = {} THEN 0
    ELSE LET b == CHOOSE x \in bs : TRUE
         IN  result[b].count + C15_CountSum(bs \ {b})

\* C15: the keys of the mapping estimateWaitTimesByBackend returns are the
\* backends ("Unknown" for an empty or missing one) with at least one
\* duration record; count is the number of duration records of the backend,
\* at least 1, the counts add up to the length of computeDurations' output,
\* and mean is the sum of the backend's queueSec divided by count
C15_GroupsOfDurationRecords ==
    (fn = "estimateWaitTimesByBackend" /\ thrown = "none") =>
        /\ DOMAIN result = { b \in { GroupOf(jobs[i]) : i \in 1..Len(jobs) } :
                               C15_Members(b) # {} }
        /\ \A b \in DOMAIN result :
              /\ result[b].count = Cardinality(C15_Members(b))
              /\ result[b].count >= 1
              /\ result[b].mean =
                    Div(C15_QueueSum(Len(jobs), C15_Members(b)), Num(result[b].count))
        /\ C15_CountSum(DOMAIN result) = Len(computeDurations(jobs))

\* a mapping with the key "Unknown" and a key of positive mean, for a list
\* with a backend that has no duration record and so no key
C15_Witness ==
    /\ fn = "estimateWaitTimesByBackend"
    /\ thrown = "none"
    /\ "Unknown" \in DOMAIN result
    /\ \E b \in DOMAIN result : Gt(result[b].mean, Zero)
    /\ \E i \in 1..Len(jobs) : GroupOf(jobs[i]) \notin DOMAIN result

(***************************************************************************)
(* C16: the bounds of the normalisation                                     *)
(***************************************************************************)
\* the positions in the result of the entries with a finite avgQueue
C16_Finite == { k \in 1..Len(result) : IsFinite(result[k].avgQueue) }

\* C16: the bounds of the queue normalisation are the least and the greatest
\* finite avgQueue: when two backends have distinct finite avgQueue, under
\* the weights {success: 0, queue: 1, exec: 0} the backend of the least
\* avgQueue scores 1 and the backend of the greatest scores 0
C16_BoundsAreFiniteExtremes ==
    (fn = "recommendBackends" /\ WeightsParam(args) = QueueOnly) =>
        ((\E k, l \in C16_Finite : result[k].avgQueue # result[l].avgQueue) =>
            \A k \in C16_Finite :
                /\ (\A l \in C16_Finite : Le(result[k].avgQueue, result[l].avgQueue))
                      => result[k].score = One
                /\ (\A l \in C16_Finite : Ge(result[k].avgQueue, result[l].avgQueue))
                      => result[k].score = Zero)

(***************************************************************************)
(* C17, C18: execSec and queueSec                                           *)
(***************************************************************************)
\* the record computeDurations returned for the job at position i of C3_Kept
C17_RecordOf(i) == result[Cardinality({ k \in C3_Kept : k <= i })]

\* the execution_time of job j is there and starts with a number that is not
\* negative
C17_ExecUsable(j) ==
    /\ ~j.execution_time.isNull
    /\ j.execution_time.str # <<>>
    /\ IsFinite(ParseInt(j.execution_time.str))
    /\ ~Lt(ParseInt(j.execution_time.str), Zero)

\* the end_time of job j is there and parses as a date
C17_EndUsable(j) ==
    /\ ~j.end_time.isNull
    /\ j.end_time.str # ""
    /\ ~IsNaN(DateGetTime(j.end_time.str))

\* max(0, (end - start) / 1000) of job j
C17_Elapsed(j) ==
    LET diff == Sub(DateGetTime(j.end_time.str), DateGetTime(j.creation_time.str))
    IN  IF Lt(diff, Zero) THEN Zero ELSE Div(diff, Num(1000))

\* C17: for a job with a parseable creation_time, execSec is
\* execution_time / 1000 when execution_time is there and parses to a finite
\* number that is not negative, whatever end_time is; else
\* max(0, (end - start) / 1000) when end_time is there and parses; else 0
C17_ExecSecBySource ==
    fn = "computeDurations" =>
        \A i \in C3_Kept :
            ParseableCreation(jobs[i]) =>
                C17_RecordOf(i).execSec =
                    IF C17_ExecUsable(jobs[i])
                    THEN Div(ParseInt(jobs[i].execution_time.str), Num(1000))
                    ELSE IF C17_EndUsable(jobs[i]) THEN C17_Elapsed(jobs[i])
                    ELSE Zero

\* one list with the three sources of execSec: an execution_time that is used
\* although end_time does not parse, a negative one replaced by the time
\* elapsed, and a job with neither
C17_Witness ==
    /\ fn = "computeDurations"
    /\ \E i, k, l \in C3_Kept :
          /\ ParseableCreation(jobs[i]) /\ C17_ExecUsable(jobs[i])
          /\ ~C17_EndUsable(jobs[i]) /\ Gt(C17_RecordOf(i).execSec, Zero)
          /\ ParseableCreation(jobs[k]) /\ ~C17_ExecUsable(jobs[k])
          /\ ~jobs[k].execution_time.isNull /\ C17_EndUsable(jobs[k])
          /\ Gt(C17_RecordOf(k).execSec, Zero)
          /\ ParseableCreation(jobs[l]) /\ ~C17_ExecUsable(jobs[l])
          /\ ~C17_EndUsable(jobs[l]) /\ C17_RecordOf(l).execSec = Zero

\* turnaroundSec of job j, whose record has the execution time execSec
C18_Turnaround(j, execSec) ==
    IF C17_EndUsable(j) THEN C17_Elapsed(j) ELSE execSec

C19_Jobs(b) == { i \in 1..Len(jobs) : GroupOf(jobs[i]) = b }

C19_Completed(b) == { i \in C19_Jobs(b) : jobs[i].status = "COMPLETED" }

\* the sum of the counts of the first m entries of the result
RECURSIVE C19_CountSum(_)
C19_CountSum(m) == IF m = 0 THEN 0 ELSE C19_CountSum(m - 1) + result[m].count

\* C19: recommendBackends returns one entry per distinct backend of the
\* input ("Unknown" for an empty or missing one); count is the number of
\* jobs of the backend, with or without creation_time, so the counts add up
\* to the length of the input; success is the number of its COMPLETED jobs
\* divided by count, between 0 and 1
C19_OneEntryPerBackend ==
    fn = "recommendBackends" =>
        /\ { result[k].backend : k \in 1..Len(result) }
              = { GroupOf(jobs[i]) : i \in 1..Len(jobs) }
        /\ \A k, l \in 1..Len(result) : result[k].backend = result[l].backend => k = l
        /\ \A k \in 1..Len(result) :
              LET b == result[k].backend
              IN  /\ result[k].count = Cardinality(C19_Jobs(b))
                  /\ result[k].success
                        = Div(Num(Cardinality(C19_Completed(b))), Num(result[k].count))
                  /\ Le(Zero, result[k].success)
                  /\ Le(result[k].success, One)
        /\ C19_CountSum(Len(result)) = Len(jobs)

\* an entry for "Unknown" and an entry of two jobs, one COMPLETED and one
\* RUNNING or QUEUED without creation_time, with success 1/2
C19_Witness ==
    /\ fn = "recommendBackends"
    /\ \E k \in 1..Len(result) : result[k].backend = "Unknown"
    /\ \E k \in 1..Len(result) :
          /\ result[k].count = 2
          /\ result[k].success = Rat(1, 2)
          /\ \E i \in C19_Jobs(result[k].backend) :
                /\ ~NonEmptyCreation(jobs[i])
                /\ jobs[i].status \in {"RUNNING", "QUEUED"}

(***************************************************************************)
(* C20: backends without duration records                                   *)
(***************************************************************************)
\* backend b has no job with a truthy creation_time
C20_NoRecords(b) == \A i \in C19_Jobs(b) : ~NonEmptyCreation(jobs[i])

\* the greatest of 1 and the success of the first m entries of the result
RECURSIVE C20_MaxSuccess(_)
C20_MaxSuccess(m) ==
    IF m = 0 THEN One
    ELSE LET rest == C20_MaxSuccess(m - 1)
         IN  IF Gt(result[m].success, rest) THEN result[m].success ELSE rest

\* the jobs of the backends that have a duration record
C20_Others ==
    LET with == { GroupOf(jobs[i]) : i \in C3_Kept }
    IN  SelectSeq(jobs, LAMBDA j : GroupOf(j) \in with)

\* the score of backend b in the ranking r
C20_ScoreIn(r, b) == r[CHOOSE k \in 1..Len(r) : r[k].backend = b].score

\* C20: a backend without duration records is reported with avgQueue =
\* avgExec = Infinity and the score weights.success * successN (its queueN
\* and execN are 0); the queueN and execN of the other backends, their scores
\* under the weights {0, 1, 0} and {0, 0, 1}, are what they are without it
C20_NoRecordsNoInfluence ==
    fn = "recommendBackends" =>
        /\ \A k \in 1..Len(result) :
              C20_NoRecords(result[k].backend) =>
                  /\ result[k].avgQueue = Infinity
                  /\ result[k].avgExec = Infinity
                  /\ result[k].score =
                        Mul(WeightsParam(args).success,
                            Div(result[k].success, C20_MaxSuccess(Len(result))))
        /\ WeightsParam(args) \in {QueueOnly, ExecOnly} =>
              \A alone \in {recommendBackends(C20_Others, WeightsParam(args))} :
                  \A k \in 1..Len(result) :
                      ~C20_NoRecords(result[k].backend) =>
                          result[k].score = C20_ScoreIn(alone, result[k].backend)

\* a backend without duration records and with COMPLETED jobs, scored by its
\* success alone, next to two backends of which one has queueN 0, one 1
C20_Witness ==
    /\ fn = "recommendBackends"
    /\ WeightsParam(args) = [success |-> One, queue |-> One, exec |-> One]
    /\ \E k \in 1..Len(result) :
          /\ C20_NoRecords(result[k].backend)
          /\ result[k].score = One
    /\ \E k, l \in 1..Len(result) :
          /\ IsFinite(result[k].avgQueue) /\ IsFinite(result[l].avgQueue)
          /\ Gt(result[k].avgQueue, result[l].avgQueue)

(***************************************************************************)
(* C21: the weights                                                         *)
(***************************************************************************)
\* the weights of the call: those passed, or success 0.5, queue 0.3, exec 0.2
C21_Weights ==
    IF args = <<>>
    THEN [success |-> Rat(1, 2), queue |-> Rat(3, 10), exec |-> Rat(1, 5)]
    ELSE args[1]

\* the least of 0 and the finite values, the greatest of 1 and the finite
\* values, of field f over the first m entries of the result
RECURSIVE C21_Lo(_, _)
C21_Lo(m, f) ==
    IF m = 0 THEN Zero
    ELSE LET rest == C21_Lo(m - 1, f)
         IN  IF IsFinite(result[m][f]) /\ Lt(result[m][f], rest) THEN result[m][f] ELSE rest

RECURSIVE C21_Hi(_, _)
C21_Hi(m, f) ==
    IF m = 0 THEN One
    ELSE LET rest == C21_Hi(m - 1, f)
         IN  IF IsFinite(result[m][f]) /\ Gt(result[m][f], rest) THEN result[m][f] ELSE rest

\* queueN (f = "avgQueue") or execN (f = "avgExec") of the entry at k
C21_Inverted(k, f) ==
    LET lo == C21_Lo(Len(result), f)
        hi == C21_Hi(Len(result), f)
    IN  IF IsFinite(result[k][f]) /\ hi # lo
        THEN Sub(One, Div(Sub(result[k][f], lo), Sub(hi, lo)))
        ELSE Zero

\* the weights w multiplied by c
C21_Times(w, c) ==
    [success |-> Mul(c, w.success), queue |-> Mul(c, w.queue), exec |-> Mul(c, w.exec)]

\* the constant the weights are multiplied by
C21_Factors == { Rat(1, 4) }

C22_RecordsOf(b) ==
    { i \in 1..Len(jobs) : NonEmptyCreation(jobs[i]) /\ GroupOf(jobs[i]) = b }

\* the positions in the result of the stuck anomalies on jobs of backend b
C22_Stuck(b) ==
    { k \in 1..Len(result) :
        /\ result[k].type = "stuck"
        /\ \E i \in C11_Positions(b) : jobs[i].job_id = result[k].job_id }

\* C22: in what detectAnomalies returns, a backend with at least 8 duration
\* records that all have the same queueSec (variance 0, so the standard
\* deviation is replaced by 1 and every z-score is 0) has no 'stuck' anomaly
C22_NoStuckOnEqualQueueTimes ==
    (fn = "detectAnomalies" /\ thrown = "none") =>
        \A b \in { GroupOf(jobs[i]) : i \in 1..Len(jobs) } :
            (/\ Cardinality(C22_RecordsOf(b)) >= 8
             /\ \A i, k \in C22_RecordsOf(b) :
                   IsFinite(C10_Queue(i)) /\ C10_Queue(i) = C10_Queue(k))
                => C22_Stuck(b) = {}

\* one backend has 8 or more records of one queue time, and another backend
\* of the same list has a stuck anomaly
C22_Witness ==
    /\ fn = "detectAnomalies"
    /\ thrown = "none"
    /\ \E b, c \in { GroupOf(jobs[i]) : i \in 1..Len(jobs) } :
          /\ Cardinality(C22_RecordsOf(b)) >= 8
          /\ \A i, k \in C22_RecordsOf(b) :
                IsFinite(C10_Queue(i)) /\ C10_Queue(i) = C10_Queue(k)
          /\ C22_Stuck(b) = {}
          /\ C22_Stuck(c) # {}

(***************************************************************************)
(* C23: what the failure cluster depends on                                 *)
(***************************************************************************)
\* the job list with the status of the job at position i changed: FAILED to
\* COMPLETED, any other status to FAILED
C23_StatusChanged(i) ==
    [jobs EXCEPT ![i].status = IF @ = "FAILED" THEN "COMPLETED" ELSE "FAILED"]

\* C23: in what detectAnomalies returns, a backend with fewer than 10 jobs
\* has no failure_cluster anomaly, and whether a backend has one is the same
\* after the status of a job outside its window (a job of the backend before
\* its last 20, or a job of another backend) is changed
C23_OnlyTheWindowDecides ==
    (fn = "detectAnomalies" /\ thrown = "none") =>
        \A b \in { GroupOf(jobs[i]) : i \in 1..Len(jobs) } :
            \A window \in {C11_Window(b)}, emitted \in {C11_Clusters(b) # {}} :
                /\ Cardinality(C11_Positions(b)) < 10 => ~emitted
                /\ \A i \in 1..Len(jobs) \ window :
                      (FailureClusterOf(C23_StatusChanged(i), b) # <<>>) <=> emitted

\* a backend of more than 20 jobs, of which at least half FAILED, has no
\* failure cluster, in a list with jobs of another backend
C23_Witness ==
    /\ fn = "detectAnomalies"
    /\ thrown = "none"
    /\ \E b \in { GroupOf(jobs[i]) : i \in 1..Len(jobs) } :
          /\ Cardinality(C11_Positions(b)) > 20
          /\ 2 * Cardinality({ i \in C11_Positions(b) : jobs[i].status = "FAILED" })
                >= Cardinality(C11_Positions(b))
          /\ C11_Clusters(b) = {}
          /\ C11_Positions(b) # 1..Len(jobs)

(***************************************************************************)
(* C24: the order of the anomalies                                          *)
(***************************************************************************)
\* the position in jobs of the job the anomaly at k is about
C24_JobOf(k) == C9_JobWithId(result[k].job_id)

\* the backend of that job
C24_BackendAt(k) == GroupOf(jobs[C24_JobOf(k)])

\* the position of the first job of backend b
C24_First(b) == CHOOSE i \in C11_Positions(b) : \A k \in C11_Positions(b) : i <= k

\* C24: in what detectAnomalies returns, every 'stuck' anomaly is before
\* every 'failure_cluster' anomaly; the stuck anomalies of one backend are
\* next to each other, in the order of their jobs in the input; no backend
\* has two failure_cluster anomalies, and these are in the order in which
\* their backends first appear in the input
C24_AnomalyOrder ==
    (fn = "detectAnomalies" /\ thrown = "none") =>
        \A k, l \in 1..Len(result) :
            k < l =>
                /\ ~(result[k].type = "failure_cluster" /\ result[l].type = "stuck")
                /\ (/\ result[k].type = "stuck"
                    /\ result[l].type = "stuck"
                    /\ C24_BackendAt(k) = C24_BackendAt(l)) =>
                        /\ C24_JobOf(k) < C24_JobOf(l)
                        /\ \A m \in k..l : C24_BackendAt(m) = C24_BackendAt(k)
                /\ (/\ result[k].type = "failure_cluster"
                    /\ result[l].type = "failure_cluster") =>
                        /\ C24_BackendAt(k) # C24_BackendAt(l)
                        /\ C24_First(C24_BackendAt(k)) < C24_First(C24_BackendAt(l))

\* two backends have two stuck anomalies each, those of the first on later
\* jobs than those of the second, and a failure cluster each
C24_Witness ==
    /\ fn = "detectAnomalies"
    /\ thrown = "none"
    /\ Len(result) = 6
    /\ \A k \in 1..4 : result[k].type = "stuck"
    /\ C24_BackendAt(1) = C24_BackendAt(2)
    /\ C24_BackendAt(3) = C24_BackendAt(4)
    /\ C24_BackendAt(2) # C24_BackendAt(3)
    /\ C24_JobOf(3) < C24_JobOf(1)
    /\ result[5].type = "failure_cluster"
    /\ result[6].type = "failure_cluster"

(***************************************************************************)
(* C25: the fields copied through                                           *)
(***************************************************************************)
\* the jobs, with "Unknown" written into every empty or missing backend
C25_Named ==
    [i \in 1..Len(jobs) |->
        IF jobs[i].backend.isNull \/ jobs[i].backend.str = ""
        THEN [jobs[i] EXCEPT !.backend = Str("Unknown")]
        ELSE jobs[i]]

\* C25: every record computeDurations returns has the job_id, backend_type
\* and status of its job, and the backend of its job, or "Unknown" when
\* that is empty or missing; and what estimateWaitTimesByBackend,
\* recommendBackends and detectAnomalies return is what they return on the
\* list in which the empty and missing backends are written as "Unknown"
C25_FieldsCopiedUnknownMerged ==
    /\ fn = "computeDurations" =>
          \A i \in C3_Kept :
              \A rec \in {C17_RecordOf(i)} :
                  /\ rec.job_id = jobs[i].job_id
                  /\ rec.backend_type = jobs[i].backend_type
                  /\ rec.status = jobs[i].status
                  /\ rec.backend = IF jobs[i].backend.isNull \/ jobs[i].backend.str = ""
                                   THEN "Unknown" ELSE jobs[i].backend.str
    /\ (fn = "estimateWaitTimesByBackend" /\ thrown = "none") =>
          result \in estimateWaitTimesByBackend(C25_Named)
    /\ fn = "recommendBackends" =>
          result = recommendBackends(C25_Named, WeightsParam(args))
    /\ (fn = "detectAnomalies" /\ thrown = "none") =>
          result = detectAnomalies(C25_Named)

\* seven jobs without a backend and one of a backend named "Unknown" make
\* the sample of 8 in which the one is flagged as stuck
C25_Witness ==
    /\ fn = "detectAnomalies"
    /\ Cardinality({ i \in 1..Len(jobs) : jobs[i].backend = Str("") }) = 7
    /\ \E i \in 1..Len(jobs) :
          /\ jobs[i].backend = Str("Unknown")
          /\ \A k \in 1..Len(jobs) : jobs[k].backend = Str("Unknown") => k = i
          /\ \E a \in 1..Len(result) :
                result[a].type = "stuck" /\ result[a].job_id = jobs[i].job_id

(***************************************************************************)
(* C26: when queueSec is positive                                           *)
(***************************************************************************)
\* end - start, in milliseconds, is more than the execution_time of job j
C26_LastedLonger(j) ==
    Gt(Sub(DateGetTime(j.end_time.str), DateGetTime(j.creation_time.str)),
       ParseInt(j.execution_time.str))

\* C26: in what computeDurations returns, the record of a job with a
\* parseable creation_time has queueSec > 0 only if the job has a parseable
\* end_time and an execution_time that parses to a finite number that is
\* not negative, and end - start is more than that number; a job without
\* the one or the other has queueSec = 0
C26_PositiveQueueNeedsBothTimes ==
    fn = "computeDurations" =>
        \A i \in C3_Kept :
            ParseableCreation(jobs[i]) =>
                \A q \in {C17_RecordOf(i).queueSec} :
                    /\ Gt(q, Zero) =>
                          /\ C17_EndUsable(jobs[i])
                          /\ C17_ExecUsable(jobs[i])
                          /\ C26_LastedLonger(jobs[i])
                    /\ (~C17_EndUsable(jobs[i]) \/ ~C17_ExecUsable(jobs[i])) => q = Zero

\* one job queued; one that lasted 4 s has no usable execution_time and one
\* that ran 2 s has no parseable end_time, and neither queued
C26_Witness ==
    /\ fn = "computeDurations"
    /\ \E i, j, k \in C3_Kept :
          /\ ParseableCreation(jobs[i]) /\ Gt(C17_RecordOf(i).queueSec, Zero)
          /\ ParseableCreation(jobs[j]) /\ C17_EndUsable(jobs[j])
          /\ ~C17_ExecUsable(jobs[j])
          /\ Gt(C17_Elapsed(jobs[j]), Zero)
          /\ C17_RecordOf(j).queueSec = Zero
          /\ ParseableCreation(jobs[k]) /\ ~C17_EndUsable(jobs[k])
          /\ C17_ExecUsable(jobs[k])
          /\ Gt(ParseInt(jobs[k].execution_time.str), Zero)
          /\ C17_RecordOf(k).queueSec = Zero

(***************************************************************************)
(* C27: how many jobs of a backend can be stuck                             *)
(***************************************************************************)
\* C27: in what detectAnomalies returns, a backend with n >= 8 duration
\* records, all of finite queueSec, has fewer than n / 7.25 'stuck'
\* anomalies (29 k < 4 n): at most one for n <= 14, and never n
C27_StuckBelowChebyshevBound ==
    (fn = "detectAnomalies" /\ thrown = "none") =>
        \A b \in { GroupOf(jobs[i]) : i \in 1..Len(jobs) } :
            \A n \in {Cardinality(C22_RecordsOf(b))}, k \in {Cardinality(C22_Stuck(b))} :
                (n >= 8 /\ \A i \in C22_RecordsOf(b) : IsFinite(C10_Queue(i))) =>
                    /\ 29 * k < 4 * n
                    /\ n <= 14 => k <= 1
                    /\ k < n


(***************************************************************************)
(* C28: the page of JobsTable                                               *)
(***************************************************************************)
\* C28: while the JobsTable is rendered with a non-empty jobs prop, whatever
\* Previous/Next clicks and changes of the prop came before,
\* 1 <= currentPage <= totalPages = ceil(jobs.length / 50), and the slice
\* of jobs it displays is not empty
C28_PageWithinRange ==
    (DashboardShown /\ sortedLength > 0) =>
        /\ 1 <= currentPage
        /\ currentPage <= TotalPages(sortedLength)
        /\ CurrentJobsLength > 0


(***************************************************************************)
(* C29: fetchJobs and the flags of App                                      *)
(***************************************************************************)
\* refreshing only while a fetch is awaited; error set exactly after a
\* rejection; after a network failure jobs is [] and error is null
C29_Flags ==
    /\ refreshing => inFlight > 0
    /\ (error # Null) <=> (outcome = "rejected")
    /\ error \in {Null, LoadError}
    /\ outcome = "network failure" => (jobsLength = 0 /\ error = Null)

\* error changes only when a fetch settles, and only a resolved loadJobs
\* clears it
C29_ErrorSteps ==
    /\ error' # error => inFlight' < inFlight
    /\ (error # Null /\ error' = Null) =>
           (inFlight' < inFlight /\ outcome' \in {"parsed", "network failure"})
    /\ (refreshing /\ ~refreshing') => inFlight' < inFlight

C29_Pending == inFlight > 0

C29_Settled == inFlight = 0 /\ ~loading /\ ~refreshing

\* C29: every fetchJobs call ends with loading = false and
\* refreshing = false, whether loadJobs resolves or rejects; refreshing is
\* true only between the start and the settling of a fetch; error is set
\* exactly when loadJobs rejects and only a later resolved fetch clears it;
\* a network failure gives jobs = [] and error = null
C29_FetchJobsSettles ==
    /\ []C29_Flags
    /\ [][C29_ErrorSteps]_vars
    /\ C29_Pending ~> C29_Settled

\* a refresh of a loaded dashboard has ended in a rejection
C29_Witness ==
    /\ outcome = "rejected"
    /\ jobsLength > 0
    /\ error = LoadError
    /\ C29_Settled

====
